---- MODULE Spec2Model ----
(***************************************************************************)
(* Model of homefront.Homefront (src/homefront/homefront.py): lookup of    *)
(* environment variables with optional casting, the batch variant and the  *)
(* authentication stub.                                                     *)
(*                                                                         *)
(* Python values are records tagged by their type in field t.  A Python    *)
(* str is a sequence of one-character strings, so that strip() and the     *)
(* numeric parsers work on characters.  A formatted message is a sequence  *)
(* of text segments: the literal pieces of the template and, in place of   *)
(* %s, the characters of the formatted argument.                           *)
(***************************************************************************)
EXTENDS Integers, Sequences, FiniteSets, TLC

VARIABLES environ, call, pc, outcome, stdout

vars == <<environ, call, pc, outcome, stdout>>

---------------------------------------------------------------------------
(* Python values *)

NoneV == [t |-> "NoneType"]

StrV(s) == [t |-> "str", s |-> s]

BoolV(b) == [t |-> "bool", b |-> b]

IntV(i) == [t |-> "int", i |-> i]

FloatV(f) == [t |-> "float", f |-> f]

ComplexV(re, im) == [t |-> "complex", re |-> re, im |-> im]

TypeV(n) == [t |-> "type", name |-> n]

ListV(items) == [t |-> "list", items |-> items]

TupleV(items) == [t |-> "tuple", items |-> items]

(* Outcome of a call: a returned value or a raised exception. *)
Ok(v) == [ok |-> TRUE, val |-> v]

Raise(e, m) == [ok |-> FALSE, exc |-> e, msg |-> m]

(* bool(v), the truth value Python gives a value *)
Truthy(v) ==
    CASE v.t = "NoneType" -> FALSE
      [] v.t = "str"      -> Len(v.s) > 0
      [] v.t = "bool"     -> v.b
      [] v.t = "int"      -> v.i # 0
      [] v.t = "float"    -> v.f # 0
      [] v.t = "complex"  -> v.re # 0 \/ v.im # 0
      [] v.t \in {"list", "tuple"} -> Len(v.items) > 0
      [] OTHER            -> TRUE

---------------------------------------------------------------------------
(* Text *)

Whitespace == {" ", "\t", "\n", "\r", "\f"}

Digits == {"0", "1", "2", "3", "4", "5", "6", "7", "8", "9"}

DigitVal(c) ==
    CASE c = "0" -> 0 [] c = "1" -> 1 [] c = "2" -> 2 [] c = "3" -> 3
      [] c = "4" -> 4 [] c = "5" -> 5 [] c = "6" -> 6 [] c = "7" -> 7
      [] c = "8" -> 8 [] c = "9" -> 9

DigitChar(d) == <<"0", "1", "2", "3", "4", "5", "6", "7", "8", "9">>[d + 1]

RECURSIVE LStrip(_)
LStrip(s) ==
    IF s # <<>> /\ Head(s) \in Whitespace THEN LStrip(Tail(s)) ELSE s

RECURSIVE RStrip(_)
RStrip(s) ==
    IF s # <<>> /\ s[Len(s)] \in Whitespace
    THEN RStrip(SubSeq(s, 1, Len(s) - 1))
    ELSE s

(* str.strip() *)
Strip(s) == RStrip(LStrip(s))

RECURSIVE IntStr(_)
IntStr(n) ==
    IF n < 0 THEN <<"-">> \o IntStr(-n)
    ELSE IF n < 10 THEN <<DigitChar(n)>>
    ELSE IntStr(n \div 10) \o <<DigitChar(n % 10)>>

TypeName(n) ==
    CASE n = "str"      -> <<"s", "t", "r">>
      [] n = "int"      -> <<"i", "n", "t">>
      [] n = "float"    -> <<"f", "l", "o", "a", "t">>
      [] n = "complex"  -> <<"c", "o", "m", "p", "l", "e", "x">>
      [] n = "bool"     -> <<"b", "o", "o", "l">>
      [] n = "list"     -> <<"l", "i", "s", "t">>
      [] n = "tuple"    -> <<"t", "u", "p", "l", "e">>
      [] n = "NoneType" -> <<"N", "o", "n", "e", "T", "y", "p", "e">>

(* type(v) *)
TypeOf(v) == TypeV(v.t)

(* str(v), as applied by the %s conversion and by the str cast *)
PyStr(v) ==
    CASE v.t = "str"      -> v.s
      [] v.t = "NoneType" -> <<"N", "o", "n", "e">>
      [] v.t = "bool"     -> IF v.b THEN <<"T", "r", "u", "e">>
                                    ELSE <<"F", "a", "l", "s", "e">>
      [] v.t = "int"      -> IntStr(v.i)
      [] v.t = "type"     -> <<"<", "c", "l", "a", "s", "s", " ", "'">>
                             \o TypeName(v.name) \o <<"'", ">">>

(* template % arg for a template with one %s *)
RECURSIVE Format(_, _)
Format(template, arg) ==
    IF template = <<>> THEN <<>>
    ELSE (IF Head(template) = "%s" THEN PyStr(arg) ELSE <<Head(template)>>)
         \o Format(Tail(template), arg)

---------------------------------------------------------------------------
(* The conversions of the five supported types *)

(* The characters of an integer literal without its sign: digits, with     *)
(* single underscores allowed between digits.                              *)
IsDigitString(s) ==
    /\ s # <<>>
    /\ \A k \in 1..Len(s) : s[k] \in Digits \cup {"_"}
    /\ s[1] \in Digits
    /\ s[Len(s)] \in Digits
    /\ \A k \in 1..(Len(s) - 1) : ~(s[k] = "_" /\ s[k + 1] = "_")

RECURSIVE DigitsValue(_, _)
DigitsValue(s, acc) ==
    IF s = <<>> THEN acc
    ELSE IF Head(s) = "_" THEN DigitsValue(Tail(s), acc)
    ELSE DigitsValue(Tail(s), 10 * acc + DigitVal(Head(s)))

Unsigned(s) == IF s # <<>> /\ Head(s) \in {"+", "-"} THEN Tail(s) ELSE s

IsIntLiteral(s) == IsDigitString(Unsigned(Strip(s)))

IntLiteralValue(s) ==
    LET b == Strip(s)
        n == DigitsValue(Unsigned(b), 0)
    IN  IF Head(b) = "-" THEN -n ELSE n

(* int(v) *)
int(v) ==
    CASE v.t = "str" ->
             IF IsIntLiteral(v.s) THEN Ok(IntV(IntLiteralValue(v.s)))
             ELSE Raise("ValueError",
                        <<"invalid literal for int() with base 10: ">> \o v.s)
      [] v.t = "bool" -> Ok(IntV(IF v.b THEN 1 ELSE 0))
      [] v.t = "int" -> Ok(v)
      [] OTHER -> Raise("TypeError",
                        <<"int() argument must be a string or a number, not ">>
                        \o TypeName(v.t))

(* float(v); the texts drawn as values hold no decimal point, exponent,    *)
(* inf or nan, so a text converts exactly when it is an integer literal.   *)
float(v) ==
    CASE v.t = "str" ->
             IF IsIntLiteral(v.s) THEN Ok(FloatV(IntLiteralValue(v.s)))
             ELSE Raise("ValueError",
                        <<"could not convert string to float: ">> \o v.s)
      [] v.t = "bool" -> Ok(FloatV(IF v.b THEN 1 ELSE 0))
      [] v.t = "int" -> Ok(FloatV(v.i))
      [] OTHER -> Raise("TypeError",
                        <<"float() argument must be a string or a number, not ">>
                        \o TypeName(v.t))

(* complex(v), on the same texts as float *)
complex(v) ==
    CASE v.t = "str" ->
             IF IsIntLiteral(v.s) THEN Ok(ComplexV(IntLiteralValue(v.s), 0))
             ELSE Raise("ValueError", <<"complex() arg is a malformed string">>)
      [] v.t = "bool" -> Ok(ComplexV(IF v.b THEN 1 ELSE 0, 0))
      [] v.t = "int" -> Ok(ComplexV(v.i, 0))
      [] OTHER -> Raise("TypeError",
                        <<"complex() first argument must be a string or a number, not ">>
                        \o TypeName(v.t))

(* variant: the bool cast reads the text, "false" and "0" giving false *)
ApplyType_textual_bool(type, v) ==
    CASE type.name = "str"     -> Ok(StrV(PyStr(v)))
      [] type.name = "int"     -> int(v)
      [] type.name = "float"   -> float(v)
      [] type.name = "complex" -> complex(v)
      [] type.name = "bool"    ->
             Ok(BoolV(Truthy(v) /\ v \notin {StrV(<<"f", "a", "l", "s", "e">>),
                                              StrV(<<"0">>)}))

(* cast(env_var_value) for a type object the normalisation returned *)
ApplyType(type, v) ==
    CASE type.name = "str"     -> Ok(StrV(PyStr(v)))
      [] type.name = "int"     -> int(v)
      [] type.name = "float"   -> float(v)
      [] type.name = "complex" -> complex(v)
      [] type.name = "bool"    -> Ok(BoolV(Truthy(v)))

---------------------------------------------------------------------------
(* Homefront.  The grave accents of the source's message texts are written *)
(* as apostrophes.                                                         *)

MutexMsg ==
    <<"'required' and 'default' are mutually exclusive options -- only one may be set">>

MissingFmt == <<"The variable ", "%s", " is not set in this environment">>

InvalidCastFmt == <<"The specified type ('", "%s", "') is not a valid cast">>

NameTypeFmt ==
    <<"Expected enviromnent variable name as string, found type '", "%s",
      "' instead">>

ContainerFmt ==
    <<"Arguments must be of type 'list' or 'tuple' -- found type '", "%s",
      "' instead">>

LengthMsg == <<"Length mismatch between arguments">>

AuthFmt == <<"Authenticating in environment ", "%s", "...">>

(* variant: the identifier "int" names the float type *)
valid_swapped ==
    [k \in {TypeName(n) : n \in {"str", "int", "float", "complex", "bool"}} |->
        IF k = TypeName("int") THEN "float"
        ELSE CHOOSE n \in {"str", "int", "float", "complex", "bool"} :
                 TypeName(n) = k]

(* the dictionary valid of _normalize_cast *)
valid ==
    [k \in {TypeName(n) : n \in {"str", "int", "float", "complex", "bool"}} |->
        CHOOSE n \in {"str", "int", "float", "complex", "bool"} : TypeName(n) = k]

_normalize_cast(cast) ==
    IF cast.t = "type" /\ cast.name \in {valid[k] : k \in DOMAIN valid}
    THEN Ok(cast)
    ELSE IF cast.t = "str" /\ cast.s \in DOMAIN valid
    THEN Ok(TypeV(valid[cast.s]))
    ELSE Raise("InvalidCast", Format(InvalidCastFmt, cast))

(* variant: the name is checked but returned with its whitespace *)
_clean_var_name_unstripped(env_var_name) ==
    IF env_var_name.t # "str"
    THEN Raise("ValueError",
               Format(NameTypeFmt, StrV(TypeName(env_var_name.t))))
    ELSE Ok(StrV(env_var_name.s))

_clean_var_name(env_var_name) ==
    IF env_var_name.t # "str"
    THEN Raise("ValueError",
               Format(NameTypeFmt, StrV(TypeName(env_var_name.t))))
    ELSE Ok(StrV(Strip(env_var_name.s)))

(* variant: an absent key gives None, the supplied default being dropped *)
get_value_default_dropped(env, env_var_name, required, default, cast) ==
    IF Truthy(required) /\ Truthy(default)
    THEN Raise("AssertionError", MutexMsg)
    ELSE LET cleaned == _clean_var_name(env_var_name) IN
         IF ~cleaned.ok THEN cleaned
         ELSE LET name == cleaned.val.s IN
              IF name \notin DOMAIN env /\ Truthy(required)
              THEN Raise("EnvironmentVariableMissing",
                         Format(MissingFmt, cleaned.val))
              ELSE LET env_var_value ==
                           IF name \in DOMAIN env THEN StrV(env[name])
                           ELSE NoneV
                   IN  IF cast # NoneV
                       THEN LET type == _normalize_cast(cast) IN
                            IF ~type.ok THEN type
                            ELSE ApplyType(type.val, env_var_value)
                       ELSE Ok(env_var_value)

(* variant: the mutual-exclusion assertion follows the check of the name *)
get_value_assert_late(env, env_var_name, required, default, cast) ==
    LET cleaned == _clean_var_name(env_var_name) IN
    IF ~cleaned.ok THEN cleaned
    ELSE IF Truthy(required) /\ Truthy(default)
    THEN Raise("AssertionError", MutexMsg)
    ELSE LET name == cleaned.val.s IN
         IF name \notin DOMAIN env /\ Truthy(required)
         THEN Raise("EnvironmentVariableMissing",
                    Format(MissingFmt, cleaned.val))
         ELSE LET env_var_value ==
                      IF name \in DOMAIN env THEN StrV(env[name])
                      ELSE default
              IN  IF cast # NoneV
                  THEN LET type == _normalize_cast(cast) IN
                       IF ~type.ok THEN type
                       ELSE ApplyType(type.val, env_var_value)
                  ELSE Ok(env_var_value)

(* variant: the cast is normalised before the lookup *)
get_value_cast_first(env, env_var_name, required, default, cast) ==
    IF Truthy(required) /\ Truthy(default)
    THEN Raise("AssertionError", MutexMsg)
    ELSE LET type == IF cast # NoneV THEN _normalize_cast(cast)
                     ELSE Ok(NoneV)
         IN
         IF ~type.ok THEN type
         ELSE LET cleaned == _clean_var_name(env_var_name) IN
              IF ~cleaned.ok THEN cleaned
              ELSE LET name == cleaned.val.s IN
                   IF name \notin DOMAIN env /\ Truthy(required)
                   THEN Raise("EnvironmentVariableMissing",
                              Format(MissingFmt, cleaned.val))
                   ELSE LET env_var_value ==
                                IF name \in DOMAIN env THEN StrV(env[name])
                                ELSE default
                        IN  IF cast # NoneV
                            THEN ApplyType(type.val, env_var_value)
                            ELSE Ok(env_var_value)

get_value(env, env_var_name, required, default, cast) ==
    IF Truthy(required) /\ Truthy(default)
    THEN Raise("AssertionError", MutexMsg)
    ELSE LET cleaned == _clean_var_name(env_var_name) IN
         IF ~cleaned.ok THEN cleaned
         ELSE LET name == cleaned.val.s IN
              IF name \notin DOMAIN env /\ Truthy(required)
              THEN Raise("EnvironmentVariableMissing",
                         Format(MissingFmt, cleaned.val))
              ELSE LET env_var_value ==
                           IF name \in DOMAIN env THEN StrV(env[name])
                           ELSE default
                   IN  IF cast # NoneV
                       THEN LET type == _normalize_cast(cast) IN
                            IF ~type.ok THEN type
                            ELSE ApplyType(type.val, env_var_value)
                       ELSE Ok(env_var_value)

_validate_container(container) ==
    IF container.t \notin {"list", "tuple"}
    THEN Raise("ValueError", Format(ContainerFmt, TypeOf(container)))
    ELSE Ok(NoneV)

(* variant: the test of the lengths is inverted *)
_validate_length_inverted(container, required_length) ==
    IF Len(container.items) = required_length
    THEN Raise("ValueError", LengthMsg)
    ELSE Ok(NoneV)

_validate_length(container, required_length) ==
    IF Len(container.items) # required_length
    THEN Raise("ValueError", LengthMsg)
    ELSE Ok(NoneV)

_validate_get_values_args(args, required_length) ==
    LET checked == _validate_container(args) IN
    IF ~checked.ok THEN checked
    ELSE _validate_length(args, required_length)

_normalize_get_values_args(args, required_length, filler) ==
    IF args # NoneV
    THEN LET checked == _validate_get_values_args(args, required_length) IN
         IF ~checked.ok THEN checked ELSE Ok(args)
    ELSE Ok(ListV([k \in 1..required_length |-> filler]))

MinOf(S) == CHOOSE m \in S : \A n \in S : m <= n

(* variant: the required flags are paired with the names in reverse *)
zip_misaligned(a, b, c, d) ==
    LET n == MinOf({Len(a), Len(b), Len(c), Len(d)}) IN
    [k \in 1..n |-> <<a[k], b[n + 1 - k], c[k], d[k]>>]

(* zip(a, b, c, d): as long as the shortest argument *)
zip(a, b, c, d) ==
    [k \in 1..MinOf({Len(a), Len(b), Len(c), Len(d)}) |->
        <<a[k], b[k], c[k], d[k]>>]

(* The list built from the generator over all_args, from index k on; acc   *)
(* holds the values collected so far and the first failure ends the call.  *)
RECURSIVE collect(_, _, _, _)
collect(env, all_args, k, acc) ==
    IF k > Len(all_args) THEN Ok(ListV(acc))
    ELSE LET args == all_args[k]
             r == get_value(env, args[1], args[2], args[3], args[4])
         IN  IF ~r.ok THEN r
             ELSE collect(env, all_args, k + 1, Append(acc, r.val))

(* variant: the overrides are validated in the order casts, defaults,      *)
(* required                                                                 *)
get_values_casts_first(env, env_var_names, required, defaults, casts) ==
    LET n == Len(env_var_names.items)
        cs == _normalize_get_values_args(casts, n, NoneV)
    IN  IF ~cs.ok THEN cs
        ELSE LET defs == _normalize_get_values_args(defaults, n, NoneV) IN
             IF ~defs.ok THEN defs
             ELSE LET req == _normalize_get_values_args(required, n,
                                                        BoolV(FALSE))
                  IN
                  IF ~req.ok THEN req
                  ELSE collect(env,
                               zip(env_var_names.items, req.val.items,
                                   defs.val.items, cs.val.items),
                               1, <<>>)

get_values(env, env_var_names, required, defaults, casts) ==
    LET n == Len(env_var_names.items)
        req == _normalize_get_values_args(required, n, BoolV(FALSE))
    IN  IF ~req.ok THEN req
        ELSE LET defs == _normalize_get_values_args(defaults, n, NoneV) IN
             IF ~defs.ok THEN defs
             ELSE LET cs == _normalize_get_values_args(casts, n, NoneV) IN
                  IF ~cs.ok THEN cs
                  ELSE collect(env,
                               zip(env_var_names.items, req.val.items,
                                   defs.val.items, cs.val.items),
                               1, <<>>)

AUTHENTICATION_ENVIRONMENT ==
    <<"A", "U", "T", "H", "E", "N", "T", "I", "C", "A", "T", "I", "O", "N",
      "_", "E", "N", "V", "I", "R", "O", "N", "M", "E", "N", "T">>

(* variant: required and default are handed on to the lookup *)
authenticate_forwarding(env, required, default) ==
    IF Truthy(required) /\ Truthy(default)
    THEN [outcome |-> Raise("AssertionError", MutexMsg), printed |-> <<>>]
    ELSE LET authentication_environment ==
                 get_value(env, StrV(AUTHENTICATION_ENVIRONMENT),
                           required, default, NoneV)
         IN  IF ~authentication_environment.ok
             THEN [outcome |-> authentication_environment, printed |-> <<>>]
             ELSE [outcome |-> Ok(NoneV),
                   printed |-> <<Format(AuthFmt,
                                        authentication_environment.val)>>]

(* authenticate: the outcome and the lines it prints *)
authenticate(env, required, default) ==
    IF Truthy(required) /\ Truthy(default)
    THEN [outcome |-> Raise("AssertionError", MutexMsg), printed |-> <<>>]
    ELSE LET authentication_environment ==
                 get_value(env, StrV(AUTHENTICATION_ENVIRONMENT),
                           BoolV(FALSE), NoneV, NoneV)
         IN  IF ~authentication_environment.ok
             THEN [outcome |-> authentication_environment, printed |-> <<>>]
             ELSE [outcome |-> Ok(NoneV),
                   printed |-> <<Format(AuthFmt,
                                        authentication_environment.val)>>]

---------------------------------------------------------------------------
(* Inputs: the environments and call arguments the behaviours draw from *)

MaxLen == 2

Txt_A == <<"A">>

Txt_A_padded == <<" ", "A", " ">>

Txt_A_tabbed == <<"\t", "A", "\n">>

Txt_B == <<"B">>

Txt_B_padded == <<" ", "B", " ">>

Txt_empty == <<>>

Txt_42 == <<"4", "2">>

Txt_minus7 == <<" ", "-", "7", " ">>

Txt_false == <<"f", "a", "l", "s", "e">>

Txt_x == <<"x">>

Txt_bogus == <<"b", "o", "g", "u", "s">>

Txt_int_padded == <<" ", "i", "n", "t">>

Txt_context == <<"U", "S", ":", "N", "A", "S", "A">>

SupportedTypes == {"str", "int", "float", "complex", "bool"}

(* os.environ: text keys to text values; a key may itself carry whitespace *)
EnvKeys == {Txt_A, Txt_A_padded, AUTHENTICATION_ENVIRONMENT}

EnvValues == {Txt_42, Txt_empty, Txt_false}

Envs == UNION {[D -> EnvValues] : D \in SUBSET EnvKeys}

Names ==
    {StrV(Txt_A), StrV(Txt_A_padded), StrV(Txt_A_tabbed), StrV(Txt_B),
     StrV(Txt_empty), IntV(5), NoneV}

Flags == {BoolV(TRUE), BoolV(FALSE)}

Defaults == {NoneV, StrV(Txt_empty), StrV(Txt_x), StrV(Txt_minus7),
             StrV(Txt_false)}

Casts ==
    {NoneV, StrV(Txt_bogus), StrV(Txt_int_padded), StrV(Txt_empty),
     TypeV("list"), IntV(5)}
    \cup {StrV(TypeName(n)) : n \in SupportedTypes}
    \cup {TypeV(n) : n \in SupportedTypes}

PriorOutput == {<<>>, <<<<"earlier output">>>>}

GetValueCalls ==
    [op : {"get_value"}, env_var_name : Names, required : Flags,
     default : Defaults, cast : Casts]

NormalizeCastCalls == [op : {"_normalize_cast"}, cast : Casts]

AuthenticateCalls ==
    [op : {"authenticate"}, required : Flags, default : Defaults]

(* the batch calls, over a smaller environment *)
BatchEnvs == UNION {[D -> {Txt_42}] : D \in SUBSET {Txt_A, Txt_B}}

BatchNames == {StrV(Txt_A), StrV(Txt_B_padded), IntV(5)}

BatchDefaults == {NoneV, StrV(Txt_x)}

BatchCasts == {NoneV, StrV(TypeName("int")), StrV(Txt_bogus)}

SeqsUpTo(S, n) == UNION {[1..k -> S] : k \in 0..n}

Container(kind, items) == [t |-> kind, items |-> items]

(* an override: omitted, a bare text, or a container of the call's kind *)
Overrides(kind, S) ==
    {NoneV, StrV(TypeName("int"))}
    \cup {Container(kind, x) : x \in SeqsUpTo(S, MaxLen)}

GetValuesCalls ==
    UNION {[op : {"get_values"},
            env_var_names : {Container(kind, x) :
                                x \in SeqsUpTo(BatchNames, MaxLen)},
            required : Overrides(kind, Flags),
            defaults : Overrides(kind, BatchDefaults),
            casts : Overrides(kind, BatchCasts)] : kind \in {"list", "tuple"}}

---------------------------------------------------------------------------
(* Behaviours: a caller holds the arguments of one call (pc = "call"), the *)
(* call runs to completion and leaves its outcome (pc = "done").           *)

Init ==
    /\ environ \in Envs
    /\ call \in GetValueCalls \cup NormalizeCastCalls \cup AuthenticateCalls
    /\ pc = "call"
    /\ outcome = NoneV
    /\ stdout \in PriorOutput

GetValue ==
    /\ pc = "call"
    /\ call.op = "get_value"
    /\ outcome' = get_value(environ, call.env_var_name, call.required,
                            call.default, call.cast)
    /\ pc' = "done"
    /\ UNCHANGED <<environ, call, stdout>>

NormalizeCast ==
    /\ pc = "call"
    /\ call.op = "_normalize_cast"
    /\ outcome' = _normalize_cast(call.cast)
    /\ pc' = "done"
    /\ UNCHANGED <<environ, call, stdout>>

Authenticate ==
    /\ pc = "call"
    /\ call.op = "authenticate"
    /\ LET r == authenticate(environ, call.required, call.default) IN
          /\ outcome' = r.outcome
          /\ stdout' = stdout \o r.printed
    /\ pc' = "done"
    /\ UNCHANGED <<environ, call>>

Next == GetValue \/ NormalizeCast \/ Authenticate

Spec == Init /\ [][Next]_vars

InitBatch ==
    /\ environ \in BatchEnvs
    /\ call \in GetValuesCalls
    /\ pc = "call"
    /\ outcome = NoneV
    /\ stdout = <<>>

GetValues ==
    /\ pc = "call"
    /\ call.op = "get_values"
    /\ outcome' = get_values(environ, call.env_var_names, call.required,
                             call.defaults, call.casts)
    /\ pc' = "done"
    /\ UNCHANGED <<environ, call, stdout>>

NextBatch == GetValues

SpecBatch == InitBatch /\ [][NextBatch]_vars

---------------------------------------------------------------------------
(* Properties of get_value, _normalize_cast and authenticate (under Spec) *)

Called(op) == pc = "done" /\ call.op = op

(* the mutual-exclusion precondition of the call is violated *)
Mutex == Truthy(call.required) /\ Truthy(call.default)

NameIsText == call.env_var_name.t = "str"

Trimmed == Strip(call.env_var_name.s)

Failed(exc) == ~outcome.ok /\ outcome.exc = exc

MissingError(name) ==
    Raise("EnvironmentVariableMissing",
          <<"The variable ">> \o name \o <<" is not set in this environment">>)

(* C1: for a text name whose trimmed form is a key of the environment with *)
(* value v, get_value without a cast returns exactly v, whatever the       *)
(* allowed combination of required and default; the lookup uses the        *)
(* trimmed name.                                                           *)
C1_PresentKeyReturnsValue ==
    (/\ Called("get_value")
     /\ NameIsText
     /\ Trimmed \in DOMAIN environ
     /\ call.cast = NoneV
     /\ ~Mutex)
    => outcome = Ok(StrV(environ[Trimmed]))

C1_Witness ==
    /\ Called("get_value")
    /\ call.env_var_name = StrV(Txt_A_padded)
    /\ Txt_A \in DOMAIN environ
    /\ Txt_A_padded \in DOMAIN environ
    /\ environ[Txt_A] # environ[Txt_A_padded]
    /\ call.cast = NoneV
    /\ Truthy(call.default)
    /\ outcome = Ok(StrV(environ[Txt_A]))

(* C2 as stated: for a text name k that is itself not a key of the         *)
(* environment, get_value(k, required=true) fails with                     *)
(* EnvironmentVariableMissing carrying the trimmed name, and               *)
(* get_value(k, default=d), not required and without a cast, returns d.    *)
C2_AbsentAsStated ==
    (/\ Called("get_value")
     /\ NameIsText
     /\ call.env_var_name.s \notin DOMAIN environ)
    => /\ (call.required = BoolV(TRUE) /\ call.default = NoneV)
          => outcome = MissingError(Trimmed)
       /\ (call.required = BoolV(FALSE) /\ call.cast = NoneV)
          => outcome = Ok(call.default)

(* C2 amended: for a text name whose trimmed form is not a key of the      *)
(* environment, get_value(k, required=true) fails with                     *)
(* EnvironmentVariableMissing carrying the trimmed name, and               *)
(* get_value(k, default=d), not required and without a cast, returns d     *)
(* (None when no default is supplied).                                     *)
C2_TrimmedAbsent ==
    (/\ Called("get_value")
     /\ NameIsText
     /\ Trimmed \notin DOMAIN environ)
    => /\ (call.required = BoolV(TRUE) /\ call.default = NoneV)
          => outcome = MissingError(Trimmed)
       /\ (call.required = BoolV(FALSE) /\ call.cast = NoneV)
          => outcome = Ok(call.default)

C2_Witness ==
    /\ Called("get_value")
    /\ call.env_var_name = StrV(Txt_A_padded)
    /\ Txt_A \notin DOMAIN environ
    /\ Txt_A_padded \in DOMAIN environ
    /\ call.required = BoolV(TRUE)
    /\ call.default = NoneV
    /\ outcome = MissingError(Txt_A)

(* C3: with required true and a truthy default get_value fails the         *)
(* assertion whether or not the key is present, before every other check   *)
(* (also for a name that is not text and for an invalid cast); with        *)
(* required true and a default of None or the empty text the assertion     *)
(* does not fail.                                                          *)
C3_MutualExclusionFirst ==
    Called("get_value")
    => /\ Mutex => outcome = Raise("AssertionError", MutexMsg)
       /\ (call.required = BoolV(TRUE)
           /\ call.default \in {NoneV, StrV(<<>>)})
          => ~Failed("AssertionError")

C3_Witness ==
    /\ Called("get_value")
    /\ call.env_var_name = IntV(5)
    /\ call.cast = StrV(Txt_bogus)
    /\ call.required = BoolV(TRUE)
    /\ call.default = StrV(Txt_x)
    /\ outcome = Raise("AssertionError", MutexMsg)

(* the supported type a cast specifier names, if any *)
NamedBy(cast) ==
    {n \in SupportedTypes : cast \in {StrV(TypeName(n)), TypeV(n)}}

InvalidCastError(cast) ==
    Raise("InvalidCast",
          <<"The specified type ('">> \o PyStr(cast)
          \o <<"') is not a valid cast">>)

(* C7: _normalize_cast resolves each of the five identifiers and the       *)
(* native type it names to the same type, every other specifier fails      *)
(* with InvalidCast carrying the specifier, and get_value gives the same   *)
(* outcome for an identifier as for its native type.                       *)
C7_CastSpecifiers ==
    /\ Called("_normalize_cast")
       => IF NamedBy(call.cast) # {}
          THEN \A n \in NamedBy(call.cast) : outcome = Ok(TypeV(n))
          ELSE outcome = InvalidCastError(call.cast)
    /\ Called("get_value")
       => \A n \in SupportedTypes :
             call.cast = StrV(TypeName(n))
             => outcome = get_value(environ, call.env_var_name,
                                    call.required, call.default, TypeV(n))

C7_Witness ==
    /\ Called("get_value")
    /\ call.env_var_name = StrV(Txt_A)
    /\ Txt_A \in DOMAIN environ
    /\ environ[Txt_A] = Txt_42
    /\ call.cast = StrV(TypeName("int"))
    /\ outcome = Ok(IntV(42))

(* the lookup of the call reaches the cast: no assertion failure, a text   *)
(* name, and the key present or not required                               *)
LookupPasses ==
    /\ ~Mutex
    /\ NameIsText
    /\ (Trimmed \in DOMAIN environ \/ ~Truthy(call.required))

(* the value the lookup resolves to *)
Resolved ==
    IF Trimmed \in DOMAIN environ THEN StrV(environ[Trimmed])
    ELSE call.default

Converted(n, v) ==
    CASE n = "str"     -> Ok(StrV(PyStr(v)))
      [] n = "int"     -> int(v)
      [] n = "float"   -> float(v)
      [] n = "complex" -> complex(v)
      [] n = "bool"    -> Ok(BoolV(v.t = "str" /\ v.s # <<>>))

(* C8: a cast is applied to the resolved value (the environment value if   *)
(* the key is present, otherwise the default, otherwise None); the bool    *)
(* cast gives true exactly when the resolved value is a non-empty text,    *)
(* so "false" gives true and the empty text or None gives false.           *)
C8_CastAfterResolution ==
    (Called("get_value") /\ LookupPasses)
    => \A n \in NamedBy(call.cast) : outcome = Converted(n, Resolved)

C8_Witness ==
    /\ Called("get_value")
    /\ call.env_var_name = StrV(Txt_A)
    /\ Txt_A \in DOMAIN environ
    /\ environ[Txt_A] = Txt_false
    /\ call.cast = TypeV("bool")
    /\ outcome = Ok(BoolV(TRUE))

(* C9: the cast is validated only after the lookup: a name that is not     *)
(* text fails with the ValueError of the name check and an absent required *)
(* key with EnvironmentVariableMissing, whatever the cast; InvalidCast is  *)
(* raised only for a text name whose key is present or not required.       *)
C9_CastValidatedLast ==
    Called("get_value")
    => /\ (~Mutex /\ ~NameIsText)
          => outcome =
                Raise("ValueError",
                      <<"Expected enviromnent variable name as string, found type '">>
                      \o TypeName(call.env_var_name.t) \o <<"' instead">>)
       /\ (~Mutex /\ NameIsText /\ Trimmed \notin DOMAIN environ
           /\ Truthy(call.required))
          => outcome = MissingError(Trimmed)
       /\ Failed("InvalidCast")
          => /\ NameIsText
             /\ (Trimmed \in DOMAIN environ \/ ~Truthy(call.required))

C9_Witness ==
    /\ Called("get_value")
    /\ call.env_var_name = StrV(Txt_B)
    /\ call.required = BoolV(TRUE)
    /\ call.cast = StrV(Txt_bogus)
    /\ Failed("EnvironmentVariableMissing")

(* the line authenticate prints in the given environment *)
AuthLine(env) ==
    <<"Authenticating in environment ">>
    \o (IF AUTHENTICATION_ENVIRONMENT \in DOMAIN env
        THEN env[AUTHENTICATION_ENVIRONMENT]
        ELSE <<"N", "o", "n", "e">>)
    \o <<"...">>

(* C10: authenticate fails exactly when required is true and default is    *)
(* truthy, printing nothing; otherwise it prints exactly one line naming   *)
(* the value of AUTHENTICATION_ENVIRONMENT, or None when it is absent,     *)
(* whatever required and default are.                                      *)
C10_AuthenticateStep ==
    [][(pc = "call" /\ call.op = "authenticate")
       => IF Mutex
          THEN /\ outcome' = Raise("AssertionError", MutexMsg)
               /\ stdout' = stdout
          ELSE /\ outcome'.ok
               /\ stdout' = Append(stdout, AuthLine(environ))]_vars

C10_Witness ==
    /\ Called("authenticate")
    /\ call.required = BoolV(TRUE)
    /\ AUTHENTICATION_ENVIRONMENT \notin DOMAIN environ
    /\ outcome.ok
    /\ Len(stdout) = 2
    /\ stdout[2] = <<"Authenticating in environment ", "N", "o", "n", "e",
                     "...">>

---------------------------------------------------------------------------
(* Properties of get_values (under SpecBatch) *)

NameCount == Len(call.env_var_names.items)

IsContainer(v) == v.t \in {"list", "tuple"}

(* an override is omitted, or a list or tuple as long as the names *)
WellFormed(override) ==
    \/ override = NoneV
    \/ IsContainer(override) /\ Len(override.items) = NameCount

Effective(override, filler, k) ==
    IF override = NoneV THEN filler ELSE override.items[k]

(* the outcome of the single lookup for the k-th name *)
Element(k) ==
    get_value(environ, call.env_var_names.items[k],
              Effective(call.required, BoolV(FALSE), k),
              Effective(call.defaults, NoneV, k),
              Effective(call.casts, NoneV, k))

FailingIndexes == {k \in 1..NameCount : ~Element(k).ok}

ElementWise ==
    IF FailingIndexes = {}
    THEN Ok(ListV([k \in 1..NameCount |-> Element(k).val]))
    ELSE Element(MinOf(FailingIndexes))

(* C4: when every supplied override is a list or tuple as long as the      *)
(* names, get_values returns the list of the results of get_value on the   *)
(* k-th name, flag, default and cast (false, None, None for an omitted     *)
(* override), in input order; if a lookup fails the call fails with the    *)
(* error of the lowest failing index.                                      *)
C4_BatchIsElementWise ==
    (/\ Called("get_values")
     /\ WellFormed(call.required)
     /\ WellFormed(call.defaults)
     /\ WellFormed(call.casts))
    => outcome = ElementWise

C4_Witness ==
    /\ Called("get_values")
    /\ call.env_var_names.items = <<StrV(Txt_A), StrV(Txt_B_padded)>>
    /\ IsContainer(call.required)
    /\ call.required.items = <<BoolV(TRUE), BoolV(FALSE)>>
    /\ IsContainer(call.defaults)
    /\ call.defaults.items = <<NoneV, StrV(Txt_x)>>
    /\ call.casts = NoneV
    /\ Txt_A \in DOMAIN environ
    /\ Txt_B \notin DOMAIN environ
    /\ outcome = Ok(ListV(<<StrV(Txt_42), StrV(Txt_x)>>))

Malformed(override) == override # NoneV /\ ~WellFormed(override)

FirstMalformed ==
    IF Malformed(call.required) THEN call.required
    ELSE IF Malformed(call.defaults) THEN call.defaults
    ELSE call.casts

TypeMismatch(v) ==
    Raise("ValueError",
          <<"Arguments must be of type 'list' or 'tuple' -- found type '">>
          \o <<"<", "c", "l", "a", "s", "s", " ", "'">> \o TypeName(v.t)
          \o <<"'", ">">> \o <<"' instead">>)

LengthMismatch == Raise("ValueError", <<"Length mismatch between arguments">>)

(* C5: a supplied override that is no list or tuple fails with the type    *)
(* error and a list or tuple of another length than the names with the     *)
(* length error; the first bad override in the order required, defaults,   *)
(* casts decides, its container type before its length, and the failure    *)
(* comes before any lookup.                                                *)
C5_OverridesValidatedFirst ==
    (/\ Called("get_values")
     /\ (\/ Malformed(call.required)
         \/ Malformed(call.defaults)
         \/ Malformed(call.casts)))
    => outcome = IF IsContainer(FirstMalformed) THEN LengthMismatch
                 ELSE TypeMismatch(FirstMalformed)

C5_Witness ==
    /\ Called("get_values")
    /\ call.env_var_names.items = <<StrV(Txt_A)>>
    /\ Txt_A \notin DOMAIN environ
    /\ IsContainer(call.required)
    /\ call.required.items = <<BoolV(TRUE)>>
    /\ IsContainer(call.defaults)
    /\ Len(call.defaults.items) = 2
    /\ call.casts = StrV(TypeName("int"))
    /\ outcome = LengthMismatch

(* C6 as stated: with defaults and casts omitted and required a list or    *)
(* tuple, the call fails with the length error only if the lengths differ, *)
(* and whenever they are equal it succeeds with a list of as many elements *)
(* as names.                                                               *)
C6_EqualLengthSucceeds ==
    (/\ Called("get_values")
     /\ call.defaults = NoneV
     /\ call.casts = NoneV
     /\ IsContainer(call.required))
    => /\ outcome = LengthMismatch
          => Len(call.required.items) # NameCount
       /\ Len(call.required.items) = NameCount
          => /\ outcome.ok
             /\ Len(outcome.val.items) = NameCount

(* C6 amended: with defaults and casts omitted and required a list or      *)
(* tuple, the call fails with the length error only if the lengths differ; *)
(* whenever they are equal it returns the list of the lookups of the names *)
(* in input order, as long as the names, unless a lookup fails (a name is  *)
(* not text, or a name flagged required has no trimmed key in the          *)
(* environment), and then it fails with the error of the lowest failing    *)
(* index.                                                                  *)
C6_EqualLengthElementWise ==
    (/\ Called("get_values")
     /\ call.defaults = NoneV
     /\ call.casts = NoneV
     /\ IsContainer(call.required))
    => /\ outcome = LengthMismatch
          => Len(call.required.items) # NameCount
       /\ Len(call.required.items) = NameCount
          => /\ outcome = ElementWise
             /\ outcome.ok => Len(outcome.val.items) = NameCount
             /\ ~outcome.ok
                => \E k \in 1..NameCount :
                      LET name == call.env_var_names.items[k] IN
                      IF name.t # "str" THEN outcome.exc = "ValueError"
                      ELSE /\ outcome = MissingError(Strip(name.s))
                           /\ call.required.items[k] = BoolV(TRUE)
                           /\ Strip(name.s) \notin DOMAIN environ

C6_Witness ==
    /\ Called("get_values")
    /\ call.defaults = NoneV
    /\ call.casts = NoneV
    /\ call.env_var_names.items = <<StrV(Txt_B_padded), StrV(Txt_A)>>
    /\ IsContainer(call.required)
    /\ call.required.items = <<BoolV(FALSE), BoolV(TRUE)>>
    /\ Txt_A \in DOMAIN environ
    /\ Txt_B \notin DOMAIN environ
    /\ outcome = Ok(ListV(<<NoneV, StrV(Txt_42)>>))

====
